---- MODULE Spec2Model ----
(***************************************************************************)
(* The FTP file-synchronisation engine of webflow_blog_generator:          *)
(*   download: modules/exporter.py     (export_website and helpers)        *)
(*   upload:   modules/ftp_importer.py (FTPImporter)                       *)
(* A file tree is a function from file slots to file records; a slot is   *)
(* one relative path, the same on both sides.  Odd slots lie in the root   *)
(* directory, even slots in the subdirectory "sub".                        *)
(***************************************************************************)
EXTENDS Integers, Sequences, FiniteSets, TLC

\* ---------------------------------------------------------------- bounds
MaxMtime == 2        \* initial modification times range over 1..MaxMtime
MaxFaults == 3       \* transport faults injected in one behaviour
MaxTasks == 20       \* transfer tasks of the aggregate specification
MaxPool == 6         \* transfer tasks of the worker-pool specification

\* ------------------------------------------------------ program constants
MAX_WORKERS == 5
RETRY_COUNT == 3
RETRY_DELAY == 2
LARGE_FILE_THRESHOLD == 10485760
\* SUCCESS_RATE_THRESHOLD = 0.9, kept as the fraction 9/10.  float(s)/float(n)
\* is the correctly rounded quotient, and 0.9 the correctly rounded 9/10, so
\* for n < 2^50 the comparison s/n >= 0.9 agrees with 10*s >= 9*n.
SUCCESS_RATE_NUM == 9
SUCCESS_RATE_DEN == 10
\* FTPImporter._upload_file(retries=3, backoff_factor=2)
UPLOAD_RETRIES == 3
BACKOFF_FACTOR == 2

\* The file slots: slot 1 is <root>/1, slot 2 is <root>/sub/2.
Files == {1, 2}
\* A behaviour runs the sync twice in a row.
Runs == {1, 2}
Mtimes == 1..MaxMtime
\* File sizes: an empty file, a file of exactly the threshold, one just above.
Sizes == {0, LARGE_FILE_THRESHOLD, LARGE_FILE_THRESHOLD + 1}

\* Content is a tag: <<>> for no bytes, <<f>> for the bytes of source slot f,
\* <<0>> for the bytes of a file that was at the destination before any sync.
EmptyData == <<>>
OldData == <<0>>
SourceData(f) == <<f>>

Absent == [ex |-> FALSE, size |-> 0, mtime |-> 0, data |-> EmptyData]
SourceFile(f, s, m) == [ex |-> TRUE, size |-> s, mtime |-> m, data |-> IF s = 0 THEN EmptyData ELSE SourceData(f)]
OldFile(m) == [ex |-> TRUE, size |-> 1, mtime |-> m, data |-> OldData]

SourceFiles(f) == {Absent} \cup {SourceFile(f, s, m) : s \in Sizes, m \in Mtimes}
SourceTrees == {t \in [Files -> UNION {SourceFiles(f) : f \in Files}] :
                  \A f \in Files : t[f] \in SourceFiles(f)}
DestTrees == [Files -> {Absent} \cup {OldFile(m) : m \in Mtimes}]

DirOf(f) == IF f % 2 = 1 THEN "root" ELSE "sub"
FilesIn(tree, d) == {f \in Files : tree[f].ex /\ DirOf(f) = d}

Min(S) == CHOOSE x \in S : \A y \in S : x <= y

\* FTP connections (FTPHost objects).  The one the scan is made on, opened at
\* exporter.py 130-132 and ftp_importer.py 363:
ScanConnection == <<"scan">>
\* exporter.py 259-261: the FTPHost download_with_own_connection opens for the
\* task of file f
OwnConnection(f) == <<"worker", f>>
NoConnection == <<>>

\* A transfer task: st its position, attempts the transfer attempts made, errs
\* those that raised a transient error, perm the attempt that raised a
\* permanent error (0: none), naps the backoff sleeps, res its outcome, conn
\* the connection its transfers are made on, stale whether the upload found a
\* temp marker .in.<name>, cleanup what it did about the marker.
NoTask == [st |-> "none", size |-> 0, attempts |-> 0, errs |-> 0, naps |-> <<>>,
           perm |-> 0, res |-> FALSE, conn |-> NoConnection, stale |-> FALSE,
           cleanup |-> "none"]
NoTally == [bound |-> FALSE, successful |-> 0, failed |-> 0, total |-> 0]
NoStats == [uploaded |-> 0, skipped |-> 0, failed |-> 0, dirs_created |-> 0]
NoDecision == [made |-> FALSE, transfer |-> FALSE, dst_ex |-> FALSE, src_mtime |-> 0, dst_mtime |-> 0]

VARIABLES
    mode,            \* the entry point of this behaviour
    now,             \* the wall clock
    remote,          \* the tree on the FTP server
    local,           \* the tree on the local disk
    rsub,            \* the remote directory "sub" exists
    marker,          \* marker[f]: the remote temp file .in.<f> exists
    purge_remote,    \* the caller's purge_remote argument
    pc,              \* position of the coordinator
    run,             \* syncs started so far
    dirs,            \* upload: directories os.walk has still to yield
    todo,            \* files the scan has still to look at
    file_cache,      \* exporter: file_cache keys
    tasks,           \* download_tasks / upload_tasks, in list order
    task,            \* per file: the state of its transfer task
    tally,           \* exporter: successful_downloads, failed_downloads, total_tasks
    stats,           \* FTPImporter.stats
    result,          \* the value the sync returned
    faults,          \* transport faults left to inject
    pre,             \* history: the destination tree when the sync started
    decided,         \* history: the sync decision taken for each file
    clean,           \* history: no transport fault so far
    connections,     \* the FTP connections that are open
    purged,          \* history: the deletions the purge of this sync carried out
    how,             \* history: how the sync ended: "returned"; "aborted" for a
                     \* failure to connect, to walk the remote tree or to purge;
                     \* "raised" for any other exception caught by the sync's
                     \* outermost handler
    \* modules/credentials
    backends,          \* BackendManager._backends: the registered backend types
    current_backend,   \* BackendManager._current_backend
    backend_instances, \* BackendManager._backend_instances: the types instantiated
    store,             \* what each backend holds for the site's FTP credentials
    hostinger_config,  \* the static configuration: host, username, password
    last_call,         \* history: the latest call of the credentials API
    creds,             \* history: the credentials the latest sync resolved
    \* modules/pipeline/runner.py
    steps,             \* run_pipeline's steps argument
    dry_run,           \* config["dry_run"]
    use_async,         \* config["use_async"]
    at,                \* position of run_pipeline
    failed_steps,      \* history: the steps that failed
    raised,            \* history: run_pipeline raised to its caller
    completed          \* history: "Pipeline completed" was logged

credvars == <<backends, current_backend, backend_instances, store, hostinger_config,
              last_call, creds>>
pipevars == <<steps, dry_run, use_async, at, failed_steps, raised, completed>>

vars == <<mode, now, remote, local, rsub, marker, purge_remote, pc, run, dirs, todo,
          file_cache, tasks, task, tally, stats, result, faults, pre, decided, clean,
          how, purged, connections, credvars, pipevars>>

\* ftputil.FTPHost(...) has returned connection c; c has been closed, by the
\* end of its with block
Opened(c) == connections \cup {c}
Closed(c) == connections \ {c}

\* Python's None, and the truth value of a configuration or credential value
None == "None"
Truthy(v) == v # None /\ v # ""

\* modules/credentials/backends/__init__.py 18: the built-in backends
BUILTIN_BACKENDS == {"file", "env"}
CredTypes == {"FTP_USERNAME", "FTP_PASSWORD"}
\* a credential that is not in the backend: get_credential raises KeyError
Missing == "KeyError"

NoCall == [op |-> "none", backend_type |-> None, returned |-> FALSE, used |-> None]
NoCreds == [done |-> FALSE, fell_back |-> FALSE, username |-> None, password |-> None,
            failed |-> FALSE]

\* the credential manager before its first use
CredIdle ==
    /\ backends = BUILTIN_BACKENDS
    /\ current_backend = None
    /\ backend_instances = {}
    /\ store = [b \in BUILTIN_BACKENDS |-> [c \in CredTypes |-> Missing]]
    /\ hostinger_config = [host |-> None, username |-> None, password |-> None]
    /\ last_call = NoCall
    /\ creds = NoCreds

\* no pipeline is running
PipeIdle ==
    /\ steps = {}
    /\ dry_run = FALSE
    /\ use_async = FALSE
    /\ at = "idle"
    /\ failed_steps = {}
    /\ raised = FALSE
    /\ completed = FALSE

\* ------------------------------------------------------ pure functions

\* a tie of the modification times transfers
UpdateFile_TieTransfers(local_exists, local_time, mod_time) ==
    ~(local_exists /\ local_time > mod_time)

\* exporter.py 224-228: update_file
UpdateFile(local_exists, local_time, mod_time) ==
    ~(local_exists /\ local_time >= mod_time)

\* exporter.py 343
IsLargeFile(file_size) == file_size > LARGE_FILE_THRESHOLD

\* exporter.py 351: os.path.exists(local_file) and os.path.getsize(local_file) > 0
Verified(lf) == lf.ex /\ lf.size > 0

\* exporter.py 362: attempt < RETRY_COUNT - 1 (attempt counts from 0)
RetryAfterError(attempt) == attempt < RETRY_COUNT - 1

\* one turn too many
LoopContinues_OneMore(attempt) == attempt + 1 < RETRY_COUNT + 1

\* exporter.py 338: for attempt in range(RETRY_COUNT)
LoopContinues(attempt) == attempt + 1 < RETRY_COUNT

\* exporter.py 364: time.sleep(RETRY_DELAY * (attempt + 1))
DownloadDelay(attempt) == RETRY_DELAY * (attempt + 1)

\* the threshold itself fails
SuccessRateOK_Strict(successful, total) ==
    successful * SUCCESS_RATE_DEN > SUCCESS_RATE_NUM * total

\* exporter.py 312-315: float(successful_downloads) / float(total_tasks) >= 0.9
SuccessRateOK(successful, total) ==
    successful * SUCCESS_RATE_DEN >= SUCCESS_RATE_NUM * total

\* as many workers as tasks
WorkerCount_Unbounded(n) == n

\* exporter.py 247
WorkerCount(n) == IF MAX_WORKERS < n THEN MAX_WORKERS ELSE n

\* exporter.py 242: download_tasks.sort(key=lambda x: x[2]); list.sort is stable
RECURSIVE InsertBySize(_, _)
InsertBySize(s, t) ==
    IF s = <<>> THEN <<t>>
    ELSE IF s[Len(s)].size <= t.size THEN Append(s, t)
    ELSE Append(InsertBySize(SubSeq(s, 1, Len(s) - 1), t), s[Len(s)])

\* the list is left in scan order
SortBySize_ScanOrder(s) == s

RECURSIVE SortBySize(_)
SortBySize(s) ==
    IF s = <<>> THEN <<>>
    ELSE InsertBySize(SortBySize(SubSeq(s, 1, Len(s) - 1)), s[Len(s)])

\* ftputil's download_if_newer, called at exporter.py 387: the transfer is made
\* when the target is missing or the source is not older than the target.
IfNewerTransfers(rf, lf) == ~lf.ex \/ rf.mtime >= lf.mtime

\* the file a completed RETR leaves on the local disk
Downloaded(rf, t) == [ex |-> TRUE, size |-> rf.size, mtime |-> t, data |-> rf.data]
\* exporter.py 384: open(local_file, "wb") creates or truncates the file
Truncated(t) == [ex |-> TRUE, size |-> 0, mtime |-> t, data |-> EmptyData]

TaskFiles == {tasks[i].f : i \in 1..Len(tasks)}
Running == {f \in DOMAIN task : task[f].st = "running"}
Queued(i) == task[tasks[i].f].st = "queued"

\* ------------------------------------------------------ download: the scan

\* exporter.py 128-149 and 176-193: connect, then start the walk
BeginScan(loc) ==
    /\ pre' = local
    /\ local' = loc
    /\ result' = FALSE
    /\ decided' = [f \in Files |-> NoDecision]
    /\ file_cache' = {}
    /\ tasks' = <<>>
    /\ task' = [f \in Files |-> NoTask]
    /\ tally' = NoTally
    /\ \/ /\ todo' = {f \in Files : remote[f].ex}
          /\ pc' = "scan"
          /\ how' = "none"
          /\ connections' = Opened(ScanConnection)
          /\ UNCHANGED <<faults, clean>>
       \/ \* the scan connection cannot be opened: exporter.py 151-153
          /\ faults > 0
          /\ faults' = faults - 1
          /\ clean' = FALSE
          /\ todo' = {}
          /\ pc' = "done"
          /\ how' = "aborted"
          /\ UNCHANGED connections

\* exporter.py 35-102: export_website
ExportWebsite ==
    /\ mode = "export"
    /\ pc \in {"idle", "done"}
    /\ run + 1 \in Runs
    /\ run' = run + 1
    /\ now' = IF run = 0 THEN now ELSE now + 1
    \* 57-59: shutil.rmtree(export_dir); export_dir.mkdir()
    /\ BeginScan([f \in Files |-> Absent])
    /\ UNCHANGED <<credvars, pipevars, purged, mode, remote, rsub, marker, purge_remote, dirs, stats>>

\* exporter.py 105-153: _download_website_content called on a kept directory
DownloadWebsiteContent ==
    /\ mode = "scan"
    /\ pc = "idle"
    /\ run' = run + 1
    /\ now' = now
    /\ BeginScan(local)
    /\ UNCHANGED <<credvars, pipevars, purged, mode, remote, rsub, marker, purge_remote, dirs, stats>>

\* exporter.py 212-234: one file of the walk
ScanFile ==
    /\ mode \in {"export", "scan"}
    /\ pc = "scan"
    /\ todo # {}
    /\ LET f == Min(todo) IN
       /\ todo' = todo \ {f}
       /\ \/ \* 219-232
             LET update_file == UpdateFile(local[f].ex, local[f].mtime, remote[f].mtime) IN
             /\ file_cache' = file_cache \cup {f}
             /\ tasks' = IF update_file
                         THEN Append(tasks, [f |-> f, size |-> remote[f].size])
                         ELSE tasks
             /\ decided' = [decided EXCEPT ![f] =
                              [made |-> TRUE, transfer |-> update_file,
                               dst_ex |-> local[f].ex,
                               src_mtime |-> remote[f].mtime,
                               dst_mtime |-> local[f].mtime]]
             /\ UNCHANGED <<faults, clean>>
          \/ \* 233-234: getsize or getmtime raises; the file is only logged
             /\ faults > 0
             /\ faults' = faults - 1
             /\ clean' = FALSE
             /\ UNCHANGED <<file_cache, tasks, decided>>
    /\ UNCHANGED <<credvars, pipevars, connections, purged, how, mode, now, remote, local, rsub, marker, purge_remote, pc, run,
                   dirs, task, tally, stats, result, pre>>

\* exporter.py 196 and 318-320: the walk itself raises
ScanAbort ==
    /\ mode \in {"export", "scan"}
    /\ pc = "scan"
    /\ todo # {}
    /\ faults > 0
    /\ faults' = faults - 1
    /\ clean' = FALSE
    /\ pc' = "done"
    /\ how' = "aborted"
    /\ result' = FALSE
    /\ connections' = Closed(ScanConnection)
    /\ UNCHANGED <<credvars, pipevars, purged, mode, now, remote, local, rsub, marker, purge_remote, run, dirs, todo,
                   file_cache, tasks, task, tally, stats, pre, decided>>

\* exporter.py 241-278: sort, then submit every task to the executor
SubmitTasks ==
    /\ mode \in {"export", "scan"}
    /\ pc = "scan"
    /\ todo = {}
    /\ tasks' = SortBySize(tasks)
    /\ IF tasks # <<>>
       THEN /\ tally' = [bound |-> TRUE, successful |-> 0, failed |-> 0,
                         total |-> Len(tasks)]
            /\ task' = [f \in Files |->
                          IF f \in TaskFiles
                          THEN [NoTask EXCEPT !.st = "queued", !.size = remote[f].size]
                          ELSE NoTask]
            /\ pc' = "pool"
       ELSE /\ pc' = "summary"
            /\ UNCHANGED <<tally, task>>
    /\ UNCHANGED <<credvars, pipevars, connections, purged, how, mode, now, remote, local, rsub, marker, purge_remote, run, dirs, todo,
                   file_cache, stats, result, faults, pre, decided, clean>>

\* ------------------------------------------------------ download: the pool

\* exporter.py 254-267: a pool thread takes the next submitted task and opens
\* the task's own connection
StartTask(f) ==
    /\ mode \in {"export", "scan"}
    /\ pc = "pool"
    /\ task[f].st = "queued"
    /\ \E i \in 1..Len(tasks) :
          /\ tasks[i].f = f
          /\ \A j \in 1..(i - 1) : ~Queued(j)
    /\ Cardinality(Running) < WorkerCount(Len(tasks))
    /\ \/ /\ task' = [task EXCEPT ![f].st = "running", ![f].conn = OwnConnection(f)]
          /\ connections' = Opened(OwnConnection(f))
          /\ UNCHANGED <<faults, clean>>
       \/ \* 265-267: the connection fails, the task returns False
          /\ faults > 0
          /\ faults' = faults - 1
          /\ clean' = FALSE
          /\ task' = [task EXCEPT ![f].st = "done", ![f].res = FALSE]
          /\ UNCHANGED connections
    /\ UNCHANGED <<credvars, pipevars, purged, how, mode, now, remote, local, rsub, marker, purge_remote, pc, run, dirs, todo,
                   file_cache, tasks, tally, stats, result, pre, decided>>

\* exporter.py 352: return True
AttemptSucceeds(t) ==
    [t EXCEPT !.st = "done", !.res = TRUE, !.attempts = t.attempts + 1]

\* exporter.py 354, 338, 369: verification failed; next turn of the loop, or
\* the return False after it
AttemptUnverified(t) ==
    IF LoopContinues(t.attempts)
    THEN [t EXCEPT !.attempts = t.attempts + 1]
    ELSE [t EXCEPT !.st = "done", !.res = FALSE, !.attempts = t.attempts + 1]

\* exporter.py 356-359: except ftplib.error_perm
AttemptPermError(t) ==
    [t EXCEPT !.st = "done", !.res = FALSE, !.attempts = t.attempts + 1,
              !.perm = t.attempts + 1]

\* exporter.py 361-367: except Exception
AttemptError(t) ==
    IF RetryAfterError(t.attempts)
    THEN [t EXCEPT !.attempts = t.attempts + 1, !.errs = t.errs + 1,
                   !.naps = Append(t.naps, DownloadDelay(t.attempts)),
                   !.st = IF LoopContinues(t.attempts) THEN "running" ELSE "done"]
    ELSE [t EXCEPT !.st = "done", !.res = FALSE, !.attempts = t.attempts + 1,
                   !.errs = t.errs + 1]

\* exporter.py 350-354
AfterTransfer(t, lf) == IF Verified(lf) THEN AttemptSucceeds(t) ELSE AttemptUnverified(t)

\* exporter.py 338-367 and 372-415: one attempt of _download_file_with_retry.
\* out: what the transport does in this attempt.
DownloadAttempt(f, out) ==
    /\ mode \in {"export", "scan"}
    /\ task[f].st = "running"
    /\ IF out = "ok"
       THEN UNCHANGED <<faults, clean>>
       ELSE faults > 0 /\ faults' = faults - 1 /\ clean' = FALSE
    /\ IF IsLargeFile(task[f].size)
       THEN \* _download_large_file
            \/ /\ out = "ok"         \* download_if_newer returns
               /\ LET lf == IF IfNewerTransfers(remote[f], Truncated(now))
                            THEN Downloaded(remote[f], now)
                            ELSE Truncated(now) IN
                  /\ local' = [local EXCEPT ![f] = lf]
                  /\ task' = [task EXCEPT ![f] = AfterTransfer(task[f], lf)]
            \/ /\ out = "fallback"   \* it raises; the raw RETR of 391-411 works
               /\ local' = [local EXCEPT ![f] = Downloaded(remote[f], now)]
               /\ task' = [task EXCEPT ![f] =
                             AfterTransfer(task[f], Downloaded(remote[f], now))]
            \/ /\ out = "error"      \* both raise: Exception("Chunk download failed")
               /\ local' = [local EXCEPT ![f] = Truncated(now)]
               /\ task' = [task EXCEPT ![f] = AttemptError(task[f])]
       ELSE \* ftp_host.download
            \/ /\ out = "ok"
               /\ local' = [local EXCEPT ![f] = Downloaded(remote[f], now)]
               /\ task' = [task EXCEPT ![f] =
                             AfterTransfer(task[f], Downloaded(remote[f], now))]
            \/ /\ out = "error_perm"
               /\ task' = [task EXCEPT ![f] = AttemptPermError(task[f])]
               /\ UNCHANGED local
            \/ /\ out = "error"
               /\ task' = [task EXCEPT ![f] = AttemptError(task[f])]
               /\ UNCHANGED local
    \* 259-264: the with block of the task's connection is left
    /\ connections' = IF task'[f].st = "done" THEN Closed(OwnConnection(f)) ELSE connections
    /\ UNCHANGED <<credvars, pipevars, purged, how, mode, now, remote, rsub, marker, purge_remote, pc, run, dirs, todo,
                   file_cache, tasks, tally, stats, result, pre, decided>>

\* a failed outcome is not counted
Tallied_SuccessOnly(t, success) ==
    IF success THEN [t EXCEPT !.successful = t.successful + 1] ELSE t

\* exporter.py 287-295
Tallied(t, success) ==
    IF success
    THEN [t EXCEPT !.successful = t.successful + 1]
    ELSE [t EXCEPT !.failed = t.failed + 1]

\* exporter.py 284-301: the coordinator takes one completed future
CollectResult(f) ==
    /\ mode \in {"export", "scan"}
    /\ pc = "pool"
    /\ task[f].st = "done"
    /\ task' = [task EXCEPT ![f].st = "collected"]
    /\ tally' = Tallied(tally, task[f].res)
    /\ UNCHANGED <<credvars, pipevars, connections, purged, how, mode, now, remote, local, rsub, marker, purge_remote, pc, run, dirs, todo,
                   file_cache, tasks, stats, result, faults, pre, decided, clean>>

\* exporter.py 303-320.  With an empty task list successful_downloads was never
\* bound: line 306 raises NameError, and 318-320 turn it into False.
DownloadResult(t) ==
    IF ~t.bound THEN FALSE
    ELSE IF t.total > 0 THEN SuccessRateOK(t.successful, t.total)
    ELSE TRUE

Summary ==
    /\ mode \in {"export", "scan"}
    /\ \/ pc = "summary"
       \/ pc = "pool" /\ \A f \in TaskFiles : task[f].st = "collected"
    /\ pc' = "done"
    /\ how' = IF tally.bound THEN "returned" ELSE "raised"
    /\ result' = DownloadResult(tally)
    /\ connections' = Closed(ScanConnection)
    /\ UNCHANGED <<credvars, pipevars, purged, mode, now, remote, local, rsub, marker, purge_remote, run, dirs, todo,
                   file_cache, tasks, task, tally, stats, faults, pre, decided, clean>>

DownloadOutcomes == {"ok", "fallback", "error_perm", "error"}

InitDownload ==
    /\ mode \in {"export", "scan"}
    /\ now = MaxMtime
    /\ remote \in SourceTrees
    /\ local \in DestTrees
    \* export_website empties the directory: the age of what was there is moot
    /\ mode = "export" => \A f \in Files : local[f].mtime <= 1
    \* the sizes are explored under export_website
    /\ mode = "scan" => \A f \in Files : remote[f].ex => remote[f].size = LARGE_FILE_THRESHOLD
    /\ rsub = FALSE
    /\ marker = [f \in Files |-> FALSE]
    /\ purge_remote = FALSE
    /\ pc = "idle"
    /\ run = 0
    /\ dirs = <<>>
    /\ todo = {}
    /\ file_cache = {}
    /\ tasks = <<>>
    /\ task = [f \in Files |-> NoTask]
    /\ tally = NoTally
    /\ stats = NoStats
    /\ result = FALSE
    /\ faults = MaxFaults
    /\ pre = local
    /\ decided = [f \in Files |-> NoDecision]
    /\ clean = TRUE
    /\ how = "none"
    /\ purged = <<>>
    /\ connections = {}
    /\ CredIdle
    /\ PipeIdle

NextDownload ==
    \/ ExportWebsite
    \/ DownloadWebsiteContent
    \/ ScanFile
    \/ ScanAbort
    \/ SubmitTasks
    \/ \E f \in Files : StartTask(f)
    \/ \E f \in Files, out \in DownloadOutcomes : DownloadAttempt(f, out)
    \/ \E f \in Files : CollectResult(f)
    \/ Summary

\* ------------------------------------------------------ upload: FTPImporter

\* ftp_importer.py 169-187: _should_upload_file once exists() has answered.
\* mtime_ok: ftp_host.path.getmtime did not raise FTPOSError.
ShouldUploadFile(remote_exists, mtime_ok, remote_time, local_time) ==
    IF ~remote_exists THEN TRUE
    ELSE IF ~mtime_ok THEN TRUE
    ELSE ~(remote_time >= local_time)

\* ftp_importer.py 219, 229: attempt counts the failed attempts
UploadGivesUp(attempt) == attempt >= UPLOAD_RETRIES

RECURSIVE Pow(_, _)
Pow(b, e) == IF e = 0 THEN 1 ELSE b * Pow(b, e - 1)

\* ftp_importer.py 235: wait_time = backoff_factor**attempt
UploadDelay(attempt) == Pow(BACKOFF_FACTOR, attempt)

\* ftp_importer.py 393
ImportResult(st) == st.failed = 0

\* ftp_importer.py 278-284
UploadCounted(st, ok) ==
    IF ok
    THEN [st EXCEPT !.uploaded = st.uploaded + 1]
    ELSE [st EXCEPT !.failed = st.failed + 1]

\* the file a completed STOR leaves on the server
Uploaded(lf, t) == [ex |-> TRUE, size |-> lf.size, mtime |-> t, data |-> lf.data]

\* a purge that does not descend into directories
PurgeList_Flat ==
    LET one(c, x) == IF c THEN <<x>> ELSE <<>> IN
    one(remote[1].ex, <<"file", 1>>) \o one(marker[1], <<"marker", 1>>)

\* ftp_importer.py 142-150: the deletions of _purge_remote_dir(remote_dir), in
\* listing order: the root's files, then the subdirectory's files and itself.
PurgeList ==
    LET one(c, x) == IF c THEN <<x>> ELSE <<>> IN
    one(remote[1].ex, <<"file", 1>>) \o one(marker[1], <<"marker", 1>>) \o
    one(rsub /\ remote[2].ex, <<"file", 2>>) \o one(rsub /\ marker[2], <<"marker", 2>>) \o
    one(rsub, <<"rmdir", 2>>)

\* a purge whose deletions are undone
Purged_RolledBack(list, k, kind, f) == FALSE

\* the trees after the first k deletions of the list
Purged(list, k, kind, f) == \E i \in 1..k : list[i] = <<kind, f>>

\* ftp_importer.py 325-384: import_website up to the walk.
\* k: the deletions the purge completes (all of them unless one fails).
ImportWebsite(k) ==
    /\ mode = "upload"
    /\ pc \in {"idle", "done"}
    /\ run + 1 \in Runs
    /\ run' = run + 1
    /\ now' = IF run = 0 THEN now ELSE now + 1
    /\ pre' = remote
    /\ result' = FALSE
    /\ decided' = [f \in Files |-> NoDecision]
    /\ task' = [f \in Files |-> NoTask]
    /\ tasks' = <<>>
    /\ todo' = {}
    /\ \/ \* 361-366: connect fails
          /\ k = 0
          /\ purged' = <<>>
          /\ faults > 0
          /\ faults' = faults - 1
          /\ clean' = FALSE
          /\ pc' = "done"
          /\ how' = "aborted"
          \* 88-107: FTPHost(...) raises, or it returns and voidcmd raises;
          \* connect then raises ConnectionError and closes nothing
          /\ \E created \in BOOLEAN :
                connections' = IF created THEN Opened(ScanConnection) ELSE connections
          /\ UNCHANGED <<remote, rsub, marker, stats, dirs>>
       \/ \* 375-377 with 153-155 and 395-397: a deletion of the purge fails
          /\ purge_remote
          /\ k < Len(PurgeList)
          /\ purged' = SubSeq(PurgeList, 1, k)
          /\ faults > 0
          /\ faults' = faults - 1
          /\ clean' = FALSE
          /\ remote' = [f \in Files |-> IF Purged(PurgeList, k, "file", f)
                                        THEN Absent ELSE remote[f]]
          /\ marker' = [f \in Files |-> marker[f] /\ ~Purged(PurgeList, k, "marker", f)]
          /\ pc' = "done"
          /\ how' = "aborted"
          /\ connections' = Closed(ScanConnection)
          /\ UNCHANGED <<rsub, stats, dirs>>
       \/ \* 375-384: the purge, if asked for, completes
          /\ k = IF purge_remote THEN Len(PurgeList) ELSE 0
          /\ purged' = SubSeq(PurgeList, 1, k)
          /\ remote' = [f \in Files |-> IF Purged(PurgeList, k, "file", f)
                                        THEN Absent ELSE remote[f]]
          /\ marker' = [f \in Files |-> marker[f] /\ ~Purged(PurgeList, k, "marker", f)]
          /\ rsub' = (rsub /\ ~Purged(PurgeList, k, "rmdir", 2))
          /\ how' = "none"
          /\ stats' = NoStats
          /\ dirs' = <<"root">> \o IF FilesIn(local, "sub") # {} THEN <<"sub">> ELSE <<>>
          /\ pc' = "walk"
          /\ connections' = Opened(ScanConnection)
          /\ UNCHANGED <<faults, clean>>
    /\ UNCHANGED <<credvars, pipevars, mode, local, purge_remote, file_cache, tally>>

\* ftp_importer.py 302-323 with 109-131: the next directory of os.walk
ProcessDirectory ==
    /\ mode = "upload"
    /\ pc = "walk"
    /\ dirs # <<>>
    /\ LET d == Head(dirs) IN
       \/ \* 121-125
          /\ rsub' = IF d = "sub" THEN TRUE ELSE rsub
          /\ stats' = IF d = "sub" /\ ~rsub
                      THEN [stats EXCEPT !.dirs_created = stats.dirs_created + 1]
                      ELSE stats
          /\ todo' = FilesIn(local, d)
          /\ pc' = "check"
          /\ UNCHANGED <<dirs, faults, clean>>
       \/ \* 129-131 and 319-320: _ensure_remote_dir fails, the directory is skipped
          /\ faults > 0
          /\ faults' = faults - 1
          /\ clean' = FALSE
          /\ dirs' = Tail(dirs)
          /\ UNCHANGED <<rsub, stats, todo, pc>>
    /\ UNCHANGED <<credvars, pipevars, connections, purged, how, mode, now, remote, local, marker, purge_remote, run, file_cache,
                   tasks, task, tally, result, pre, decided>>

UploadChecks == {"ok", "no_mtime", "raise"}

\* ftp_importer.py 256-273: one file of the preparation loop.
\* chk: what the transport does during _should_upload_file.
CheckFile(chk) ==
    /\ mode = "upload"
    /\ pc = "check"
    /\ todo # {}
    /\ IF chk = "ok"
       THEN UNCHANGED <<faults, clean>>
       ELSE faults > 0 /\ faults' = faults - 1 /\ clean' = FALSE
    /\ chk = "no_mtime" => remote[Min(todo)].ex
    /\ LET f == Min(todo) IN
       /\ todo' = todo \ {f}
       /\ IF chk = "raise"
          THEN \* 271-273: ftp_host.path.exists raises; the file is only logged
               UNCHANGED <<tasks, task, stats, decided>>
          ELSE LET up == ShouldUploadFile(remote[f].ex, chk = "ok",
                                          remote[f].mtime, local[f].mtime) IN
               /\ tasks' = IF up THEN Append(tasks, [f |-> f, size |-> local[f].size])
                           ELSE tasks
               /\ task' = IF up
                          THEN [task EXCEPT ![f] = [NoTask EXCEPT !.st = "queued",
                                                                  !.size = local[f].size]]
                          ELSE task
               /\ stats' = IF up THEN stats
                           ELSE [stats EXCEPT !.skipped = stats.skipped + 1]
               /\ decided' = [decided EXCEPT ![f] =
                                [made |-> chk = "ok", transfer |-> up,
                                 dst_ex |-> remote[f].ex,
                                 src_mtime |-> local[f].mtime,
                                 dst_mtime |-> remote[f].mtime]]
    /\ pc' = IF todo' = {} THEN "upload" ELSE "check"
    /\ UNCHANGED <<credvars, pipevars, connections, purged, how, mode, now, remote, local, rsub, marker, purge_remote, run, dirs,
                   file_cache, tally, result, pre>>

\* the marker is left alone
MarkerCleanup_Never(marker_exists, remove_ok) == "none"

\* ftp_importer.py 208-215 (and importer.py 275-285): ftp_host.remove of the
\* marker when there is one; a failure of the removal is logged
MarkerCleanup(marker_exists, remove_ok) ==
    IF ~marker_exists THEN "none"
    ELSE IF remove_ok THEN "removed" ELSE "failed"

\* ftp_importer.py 203-215: the head of _upload_file for the next task; its
\* ftp_host is the connection import_website opened (363, 384, 316, 277)
UploadBegin ==
    /\ mode = "upload"
    /\ pc = "upload"
    /\ tasks # <<>>
    /\ LET f == Head(tasks).f IN
       /\ task[f].st = "queued"
       /\ \/ \* 208 answers, 213 removes the marker if there is one
             /\ marker' = [marker EXCEPT ![f] =
                             marker[f] /\ MarkerCleanup(marker[f], TRUE) # "removed"]
             /\ task' = [task EXCEPT ![f].st = "running", ![f].conn = ScanConnection,
                                     ![f].stale = marker[f],
                                     ![f].cleanup = MarkerCleanup(marker[f], TRUE)]
             /\ UNCHANGED <<faults, clean, pc, how, connections>>
          \/ \* 214-215: the removal fails and is only logged
             /\ marker[f]
             /\ faults > 0
             /\ faults' = faults - 1
             /\ clean' = FALSE
             /\ task' = [task EXCEPT ![f].st = "running", ![f].conn = ScanConnection,
                                     ![f].stale = marker[f],
                                     ![f].cleanup = MarkerCleanup(marker[f], FALSE)]
             /\ UNCHANGED <<marker, pc, how, connections>>
          \/ \* 208 raises: nothing catches it before import_website, 395-397
             /\ faults > 0
             /\ faults' = faults - 1
             /\ clean' = FALSE
             /\ pc' = "done"
             /\ how' = "raised"
             /\ connections' = Closed(ScanConnection)
             /\ UNCHANGED <<marker, task>>
    /\ UNCHANGED <<credvars, pipevars, purged, mode, now, remote, local, rsub, purge_remote, run, dirs, todo,
                   file_cache, tasks, tally, stats, result, pre, decided>>

UploadOutcomes == {"ok", "error_perm", "error"}

\* ftp_importer.py 219-241 and 277-284: one attempt of _upload_file, and the
\* counting of its outcome when it was the last.
UploadAttempt(out) ==
    /\ mode = "upload"
    /\ pc = "upload"
    /\ tasks # <<>>
    /\ LET f == Head(tasks).f
           t == task[f] IN
       /\ t.st = "running"
       /\ IF out = "ok"
          THEN /\ remote' = [remote EXCEPT ![f] = Uploaded(local[f], now)]
               /\ task' = [task EXCEPT ![f] = [t EXCEPT !.st = "done", !.res = TRUE,
                                                        !.attempts = t.attempts + 1]]
               /\ stats' = UploadCounted(stats, TRUE)
               /\ tasks' = Tail(tasks)
               /\ UNCHANGED <<faults, clean>>
          ELSE /\ faults > 0
               /\ faults' = faults - 1
               /\ clean' = FALSE
               /\ UNCHANGED remote
               /\ LET u == [t EXCEPT !.attempts = t.attempts + 1,
                                     !.errs = IF out = "error" THEN t.errs + 1 ELSE t.errs,
                                     !.perm = IF out = "error_perm" /\ t.perm = 0
                                              THEN t.attempts + 1 ELSE t.perm] IN
                  IF UploadGivesUp(t.attempts + 1)
                  THEN /\ task' = [task EXCEPT ![f] = [u EXCEPT !.st = "done", !.res = FALSE]]
                       /\ stats' = UploadCounted(stats, FALSE)
                       /\ tasks' = Tail(tasks)
                  ELSE /\ task' = [task EXCEPT ![f] =
                                     [u EXCEPT !.naps = Append(t.naps, UploadDelay(t.attempts + 1))]]
                       /\ UNCHANGED <<stats, tasks>>
    /\ UNCHANGED <<credvars, pipevars, connections, purged, how, mode, now, local, rsub, marker, purge_remote, pc, run, dirs, todo,
                   file_cache, tally, result, pre, decided>>

\* ftp_importer.py 302: the directory's tasks are through, os.walk goes on
NextDirectory ==
    /\ mode = "upload"
    /\ pc = "upload"
    /\ tasks = <<>>
    /\ dirs' = Tail(dirs)
    /\ pc' = "walk"
    /\ UNCHANGED <<credvars, pipevars, connections, purged, how, mode, now, remote, local, rsub, marker, purge_remote, run, todo,
                   file_cache, tasks, task, tally, stats, result, faults, pre, decided, clean>>

\* ftp_importer.py 386-393
FinishImport ==
    /\ mode = "upload"
    /\ pc = "walk"
    /\ dirs = <<>>
    /\ result' = ImportResult(stats)
    /\ pc' = "done"
    /\ how' = "returned"
    /\ connections' = Closed(ScanConnection)
    /\ UNCHANGED <<credvars, pipevars, purged, mode, now, remote, local, rsub, marker, purge_remote, run, dirs, todo,
                   file_cache, tasks, task, tally, stats, faults, pre, decided, clean>>

InitUpload ==
    /\ mode \in {"upload", "import"}
    /\ now = MaxMtime
    /\ local \in SourceTrees
    /\ \A f \in Files : local[f].ex => local[f].size # LARGE_FILE_THRESHOLD
    /\ remote \in DestTrees
    /\ rsub \in BOOLEAN
    /\ remote[2].ex => rsub
    /\ marker \in [Files -> BOOLEAN]
    /\ marker[2] => rsub
    /\ purge_remote \in BOOLEAN
    /\ pc = "idle"
    /\ run = 0
    /\ dirs = <<>>
    /\ todo = {}
    /\ file_cache = {}
    /\ tasks = <<>>
    /\ task = [f \in Files |-> NoTask]
    /\ tally = NoTally
    /\ stats = NoStats
    /\ result = FALSE
    /\ faults = MaxFaults
    /\ pre = remote
    /\ decided = [f \in Files |-> NoDecision]
    /\ clean = TRUE
    /\ how = "none"
    /\ purged = <<>>
    /\ connections = {}
    /\ CredIdle
    /\ PipeIdle

NextUpload ==
    \/ \E k \in 0..Len(PurgeList) : ImportWebsite(k)
    \/ ProcessDirectory
    \/ \E chk \in UploadChecks : CheckFile(chk)
    \/ UploadBegin
    \/ \E out \in UploadOutcomes : UploadAttempt(out)
    \/ NextDirectory
    \/ FinishImport

\* ------------------------------------------------------ upload: importer.py

\* importer.py 34-111: import_website up to the upload.
\* k: the deletions the purge completes (all of them unless one fails).
LegacyImportWebsite(k) ==
    /\ mode = "import"
    /\ pc = "idle"
    /\ run' = run + 1
    /\ pre' = remote
    /\ result' = FALSE
    /\ \/ \* 95 and 140-145: connect fails
          /\ k = 0
          /\ purged' = <<>>
          /\ faults > 0
          /\ faults' = faults - 1
          /\ clean' = FALSE
          /\ pc' = "done"
          /\ how' = "aborted"
          /\ UNCHANGED <<remote, rsub, marker, todo, connections>>
       \/ \* 102-110 and 140-145: a deletion of the purge fails
          /\ purge_remote
          /\ k < Len(PurgeList)
          /\ purged' = SubSeq(PurgeList, 1, k)
          /\ faults > 0
          /\ faults' = faults - 1
          /\ clean' = FALSE
          /\ remote' = [f \in Files |-> IF Purged(PurgeList, k, "file", f)
                                        THEN Absent ELSE remote[f]]
          /\ marker' = [f \in Files |-> marker[f] /\ ~Purged(PurgeList, k, "marker", f)]
          /\ pc' = "done"
          /\ how' = "aborted"
          /\ connections' = Closed(ScanConnection)
          /\ UNCHANGED <<rsub, todo>>
       \/ \* 102-113: the purge, if asked for, completes
          /\ k = IF purge_remote THEN Len(PurgeList) ELSE 0
          /\ purged' = SubSeq(PurgeList, 1, k)
          /\ remote' = [f \in Files |-> IF Purged(PurgeList, k, "file", f)
                                        THEN Absent ELSE remote[f]]
          /\ marker' = [f \in Files |-> marker[f] /\ ~Purged(PurgeList, k, "marker", f)]
          /\ rsub' = (rsub /\ ~Purged(PurgeList, k, "rmdir", 2))
          /\ how' = "none"
          /\ todo' = {f \in Files : local[f].ex}
          /\ pc' = "legacy"
          /\ connections' = Opened(ScanConnection)
          /\ UNCHANGED <<faults, clean>>
    /\ UNCHANGED <<credvars, pipevars, mode, now, local, purge_remote, dirs, file_cache, tasks, task,
                   tally, stats, decided>>

\* importer.py 115-133: _upload_directory reaches the next file; ftp_host.mkdir
\* for its directory if that is missing, then ftp_host.upload.
LegacyUploadFile(ok) ==
    /\ mode = "import"
    /\ pc = "legacy"
    /\ todo # {}
    /\ LET f == Min(todo) IN
       IF ok
       THEN /\ rsub' = IF DirOf(f) = "sub" THEN TRUE ELSE rsub
            /\ remote' = [remote EXCEPT ![f] = Uploaded(local[f], now)]
            /\ todo' = todo \ {f}
            /\ UNCHANGED <<pc, faults, clean, how, connections>>
       ELSE \* 140-145: any error ends the import
            /\ faults > 0
            /\ faults' = faults - 1
            /\ clean' = FALSE
            /\ pc' = "done"
            /\ how' = "raised"
            /\ connections' = Closed(ScanConnection)
            /\ UNCHANGED <<rsub, remote, todo>>
    /\ UNCHANGED <<credvars, pipevars, purged, mode, now, local, marker, purge_remote, run, dirs, file_cache,
                   tasks, task, tally, stats, result, pre, decided>>

\* importer.py 136-138
LegacyFinish ==
    /\ mode = "import"
    /\ pc = "legacy"
    /\ todo = {}
    /\ result' = TRUE
    /\ pc' = "done"
    /\ how' = "returned"
    /\ connections' = Closed(ScanConnection)
    /\ UNCHANGED <<credvars, pipevars, purged, mode, now, remote, local, rsub, marker, purge_remote, run, dirs, todo,
                   file_cache, tasks, task, tally, stats, faults, pre, decided, clean>>

NextLegacy ==
    \/ \E k \in 0..Len(PurgeList) : LegacyImportWebsite(k)
    \/ \E ok \in BOOLEAN : LegacyUploadFile(ok)
    \/ LegacyFinish

\* ------------------------------------------------------ the whole sync

Init == InitDownload \/ InitUpload
Next == NextDownload \/ NextUpload \/ NextLegacy
Spec == Init /\ [][Next]_vars

\* ------------------------------------------------------ the aggregation alone
\* The counting loops and the final verdicts, for task lists of up to MaxTasks
\* tasks whose outcomes are inputs.

\* exporter.py 284-301, from the coordinator's side
TallyOutcome(success) ==
    /\ mode = "tally_download"
    /\ pc = "pool"
    /\ tally.successful + tally.failed < tally.total
    /\ tally' = Tallied(tally, success)
    /\ UNCHANGED <<credvars, pipevars, connections, purged, how, mode, now, remote, local, rsub, marker, purge_remote, pc, run, dirs,
                   todo, file_cache, tasks, task, stats, result, faults, pre, decided,
                   clean>>

\* exporter.py 303-316
TallySummary ==
    /\ mode = "tally_download"
    /\ pc = "pool"
    /\ tally.successful + tally.failed = tally.total
    /\ result' = DownloadResult(tally)
    /\ pc' = "done"
    /\ how' = "returned"
    /\ UNCHANGED <<credvars, pipevars, connections, purged, mode, now, remote, local, rsub, marker, purge_remote, run, dirs, todo,
                   file_cache, tasks, task, tally, stats, faults, pre, decided, clean>>

\* ftp_importer.py 277-284; tally.total holds len(upload_tasks)
CountOutcome(ok) ==
    /\ mode = "tally_upload"
    /\ pc = "upload"
    /\ stats.uploaded + stats.failed < tally.total
    /\ stats' = UploadCounted(stats, ok)
    /\ UNCHANGED <<credvars, pipevars, connections, purged, how, mode, now, remote, local, rsub, marker, purge_remote, pc, run, dirs,
                   todo, file_cache, tasks, task, tally, result, faults, pre, decided,
                   clean>>

\* ftp_importer.py 386-393
CountSummary ==
    /\ mode = "tally_upload"
    /\ pc = "upload"
    /\ stats.uploaded + stats.failed = tally.total
    /\ result' = ImportResult(stats)
    /\ pc' = "done"
    /\ how' = "returned"
    /\ UNCHANGED <<credvars, pipevars, connections, purged, mode, now, remote, local, rsub, marker, purge_remote, run, dirs, todo,
                   file_cache, tasks, task, tally, stats, faults, pre, decided, clean>>

InitRate ==
    /\ mode \in {"tally_download", "tally_upload"}
    /\ pc = IF mode = "tally_download" THEN "pool" ELSE "upload"
    /\ \E n \in 1..MaxTasks :
          tally = [bound |-> TRUE, successful |-> 0, failed |-> 0, total |-> n]
    /\ stats = NoStats
    /\ now = MaxMtime
    /\ remote = [f \in Files |-> Absent]
    /\ local = [f \in Files |-> Absent]
    /\ rsub = FALSE
    /\ marker = [f \in Files |-> FALSE]
    /\ purge_remote = FALSE
    /\ run = 1
    /\ dirs = <<>>
    /\ todo = {}
    /\ file_cache = {}
    /\ tasks = <<>>
    /\ task = [f \in Files |-> NoTask]
    /\ result = FALSE
    /\ faults = 0
    /\ pre = remote
    /\ decided = [f \in Files |-> NoDecision]
    /\ clean = TRUE
    /\ how = "none"
    /\ purged = <<>>
    /\ connections = {}
    /\ CredIdle
    /\ PipeIdle

NextRate ==
    \/ \E success \in BOOLEAN : TallyOutcome(success)
    \/ TallySummary
    \/ \E ok \in BOOLEAN : CountOutcome(ok)
    \/ CountSummary

SpecRate == InitRate /\ [][NextRate]_vars

\* ------------------------------------------------------ the worker pool alone
\* The ThreadPoolExecutor of exporter.py 254-301 for task lists of up to MaxPool
\* tasks; whether a task connects and what it returns are inputs.

\* exporter.py 254-267: a pool thread takes the next submitted task, which
\* opens its own connection
PoolStart(i, connected) ==
    /\ mode = "pool"
    /\ pc = "pool"
    /\ i \in DOMAIN task
    /\ task[i].st = "queued"
    /\ \A j \in 1..(i - 1) : ~Queued(j)
    /\ Cardinality(Running) < WorkerCount(Len(tasks))
    /\ task' = IF connected
               THEN [task EXCEPT ![i].st = "running", ![i].conn = OwnConnection(i)]
               ELSE [task EXCEPT ![i].st = "done", ![i].res = FALSE]
    /\ connections' = IF connected THEN Opened(OwnConnection(i)) ELSE connections
    /\ UNCHANGED <<credvars, pipevars, purged, how, mode, now, remote, local, rsub, marker, purge_remote, pc, run, dirs,
                   todo, file_cache, tasks, tally, stats, result, faults, pre, decided,
                   clean>>

\* exporter.py 259-264: _download_file_with_retry returns and the with block
\* closes the task's connection
PoolFinish(i, success) ==
    /\ mode = "pool"
    /\ i \in DOMAIN task
    /\ task[i].st = "running"
    /\ task' = [task EXCEPT ![i].st = "done", ![i].res = success]
    /\ connections' = Closed(OwnConnection(i))
    /\ UNCHANGED <<credvars, pipevars, purged, how, mode, now, remote, local, rsub, marker, purge_remote, pc, run, dirs,
                   todo, file_cache, tasks, tally, stats, result, faults, pre, decided,
                   clean>>

\* exporter.py 284-301
PoolCollect(i) ==
    /\ mode = "pool"
    /\ pc = "pool"
    /\ i \in DOMAIN task
    /\ task[i].st = "done"
    /\ task' = [task EXCEPT ![i].st = "collected"]
    /\ tally' = Tallied(tally, task[i].res)
    /\ UNCHANGED <<credvars, pipevars, connections, purged, how, mode, now, remote, local, rsub, marker, purge_remote, pc, run, dirs,
                   todo, file_cache, tasks, stats, result, faults, pre, decided, clean>>

\* exporter.py 303-316
PoolSummary ==
    /\ mode = "pool"
    /\ pc = "pool"
    /\ \A i \in DOMAIN task : task[i].st = "collected"
    /\ result' = DownloadResult(tally)
    /\ pc' = "done"
    /\ how' = "returned"
    /\ UNCHANGED <<credvars, pipevars, connections, purged, mode, now, remote, local, rsub, marker, purge_remote, run, dirs, todo,
                   file_cache, tasks, task, tally, stats, faults, pre, decided, clean>>

InitPool ==
    /\ mode = "pool"
    /\ pc = "pool"
    /\ \E n \in 1..MaxPool :
          /\ tasks = [i \in 1..n |-> [f |-> i, size |-> 0]]
          /\ task = [i \in 1..n |-> [NoTask EXCEPT !.st = "queued"]]
          /\ tally = [bound |-> TRUE, successful |-> 0, failed |-> 0, total |-> n]
    /\ stats = NoStats
    /\ now = MaxMtime
    /\ remote = [f \in Files |-> Absent]
    /\ local = [f \in Files |-> Absent]
    /\ rsub = FALSE
    /\ marker = [f \in Files |-> FALSE]
    /\ purge_remote = FALSE
    /\ run = 1
    /\ dirs = <<>>
    /\ todo = {}
    /\ file_cache = {}
    /\ result = FALSE
    /\ faults = 0
    /\ pre = local
    /\ decided = [f \in Files |-> NoDecision]
    /\ clean = TRUE
    /\ how = "none"
    /\ purged = <<>>
    /\ connections = {}
    /\ CredIdle
    /\ PipeIdle

NextPool ==
    \/ \E i \in 1..MaxPool, connected \in BOOLEAN : PoolStart(i, connected)
    \/ \E i \in 1..MaxPool, success \in BOOLEAN : PoolFinish(i, success)
    \/ \E i \in 1..MaxPool : PoolCollect(i)
    \/ PoolSummary

SpecPool == InitPool /\ [][NextPool]_vars

\* ------------------------------------------------------ the credentials
\* modules/credentials (manager.py, api.py) and the credential lookup that
\* opens export_website and FTPImporter.connect.

\* the sync engine at rest, for the specifications that do not run it
SyncIdle ==
    /\ now = MaxMtime
    /\ remote = [f \in Files |-> Absent]
    /\ local = [f \in Files |-> Absent]
    /\ rsub = FALSE
    /\ marker = [f \in Files |-> FALSE]
    /\ purge_remote = FALSE
    /\ pc = "idle"
    /\ run = 0
    /\ dirs = <<>>
    /\ todo = {}
    /\ file_cache = {}
    /\ tasks = <<>>
    /\ task = [f \in Files |-> NoTask]
    /\ tally = NoTally
    /\ stats = NoStats
    /\ result = FALSE
    /\ faults = 0
    /\ pre = local
    /\ decided = [f \in Files |-> NoDecision]
    /\ clean = TRUE
    /\ how = "none"
    /\ purged = <<>>
    /\ connections = {}

syncvars == <<now, remote, local, rsub, marker, purge_remote, pc, run, dirs, todo,
              file_cache, tasks, task, tally, stats, result, faults, pre, decided, clean,
              how, purged, connections>>

\* the backend types a caller may name; "vault" is not registered
BackendTypes == BUILTIN_BACKENDS \cup {"vault"}

\* manager.py 50-51: backend_type = cls._current_backend or "file"
ResolveType(backend_type) ==
    IF backend_type # None THEN backend_type
    ELSE IF Truthy(current_backend) THEN current_backend ELSE "file"

\* manager.py 57: a new instance is made
Creates(t, config) == t \notin backend_instances \/ config

\* manager.py 53-54 and 59: ValueError, or the backend's constructor raises
\* (ok: the constructor works)
GetBackendRaises(t, config, ok) == t \notin backends \/ (Creates(t, config) /\ ~ok)

\* manager.py 57-60: _backend_instances and _current_backend after
\* get_backend(backend_type, **config)
InstancesAfter(t, config, ok) ==
    IF ~GetBackendRaises(t, config, ok) /\ Creates(t, config)
    THEN backend_instances \cup {t}
    ELSE backend_instances

CurrentAfter(t, config, ok) ==
    IF ~GetBackendRaises(t, config, ok) /\ Creates(t, config)
    THEN t
    ELSE current_backend

\* api.py 164-170
GetCurrentBackend == IF Truthy(current_backend) THEN current_backend ELSE "file"

\* api.py 151-161: set_backend(backend_type, **config)
SetBackend(backend_type, config, ok) ==
    /\ mode = "cred"
    /\ LET t == ResolveType(backend_type) IN
       /\ backend_instances' = InstancesAfter(t, config, ok)
       /\ current_backend' = CurrentAfter(t, config, ok)
       /\ last_call' = [op |-> "set_backend", backend_type |-> backend_type,
                        returned |-> ~GetBackendRaises(t, config, ok), used |-> None]
    /\ UNCHANGED <<mode, syncvars, pipevars, backends, store, hostinger_config, creds>>

\* api.py 64-92: get_credential(website_name, cred_type, backend_type, **config);
\* it returns unless get_backend raises or the backend has no such credential
GetCredential(cred_type, backend_type, config, ok) ==
    /\ mode = "cred"
    /\ LET t == ResolveType(backend_type) IN
       /\ backend_instances' = InstancesAfter(t, config, ok)
       /\ current_backend' = CurrentAfter(t, config, ok)
       /\ last_call' = [op |-> "get_credential", backend_type |-> backend_type,
                        returned |-> /\ ~GetBackendRaises(t, config, ok)
                                     /\ store[t][cred_type] # Missing,
                        used |-> IF GetBackendRaises(t, config, ok) THEN None ELSE t]
    /\ UNCHANGED <<mode, syncvars, pipevars, backends, store, hostinger_config, creds>>

\* exporter.py 64-66, ftp_importer.py 66-68: the configured host, or ftp.<domain>
FtpHostStr == IF hostinger_config.host = None THEN "ftp." ELSE hostinger_config.host

\* exporter.py 81, ftp_importer.py 82: not all([ftp_host_str, username, password])
MissingCredentials(host, username, password) ==
    ~(Truthy(host) /\ Truthy(username) /\ Truthy(password))

\* exporter.py 69-85 and ftp_importer.py 70-85: the two get_credential calls,
\* the fallback to the static configuration when either raises, and the test
\* for missing credentials.  ok: the backend's constructor works.
ResolveCredentials(ok) ==
    /\ mode = "cred"
    /\ LET t == ResolveType(None)
           no_backend == GetBackendRaises(t, FALSE, ok)
           fell_back == \/ no_backend
                        \/ store[t]["FTP_USERNAME"] = Missing
                        \/ store[t]["FTP_PASSWORD"] = Missing
           username == IF fell_back THEN hostinger_config.username
                       ELSE store[t]["FTP_USERNAME"]
           password == IF fell_back THEN hostinger_config.password
                       ELSE store[t]["FTP_PASSWORD"] IN
       /\ backend_instances' = InstancesAfter(t, FALSE, ok)
       /\ current_backend' = CurrentAfter(t, FALSE, ok)
       /\ last_call' = [op |-> "get_credential", backend_type |-> None,
                        returned |-> ~fell_back,
                        used |-> IF no_backend THEN None ELSE t]
       /\ creds' = [done |-> TRUE, fell_back |-> fell_back, username |-> username,
                    password |-> password,
                    failed |-> MissingCredentials(FtpHostStr, username, password)]
    /\ UNCHANGED <<mode, syncvars, pipevars, backends, store, hostinger_config>>

\* what a backend may hold for a credential, and what the configuration file
\* may give for a key
StoredValues == {Missing, "", "stored"}
ConfigValues == {None, "", "static"}

InitCred ==
    /\ mode = "cred"
    /\ SyncIdle
    /\ PipeIdle
    \* backends/__init__.py 30-46: a backend whose module fails to import is
    \* not registered
    /\ backends \in {BUILTIN_BACKENDS, {"env"}}
    /\ current_backend = None
    /\ backend_instances = {}
    /\ \E u \in StoredValues, p \in StoredValues :
          store = [b \in BUILTIN_BACKENDS |-> [c \in CredTypes |->
                      IF c = "FTP_USERNAME" THEN u ELSE p]]
    /\ hostinger_config \in [host : {None, ""}, username : ConfigValues,
                              password : ConfigValues]
    /\ last_call = NoCall
    /\ creds = NoCreds

NextCred ==
    \/ \E bt \in BackendTypes, config \in BOOLEAN, ok \in BOOLEAN :
          SetBackend(bt, config, ok)
    \/ \E c \in CredTypes, bt \in BackendTypes \cup {None}, config \in BOOLEAN,
          ok \in BOOLEAN : GetCredential(c, bt, config, ok)
    \/ \E ok \in BOOLEAN : ResolveCredentials(ok)

SpecCred == InitCred /\ [][NextCred]_vars

\* ------------------------------------------------------ the pipeline
\* modules/pipeline/runner.py: run_pipeline, and run_pipeline_async, which runs
\* the same steps in the same order when use_async is set and "generate" is
\* requested (187-189, 144-164).

\* runner.py 196-206: the steps in the order they are run
StepOrder == <<"export", "generate", "enrich", "upload">>
StepNames == {StepOrder[i] : i \in 1..Len(StepOrder)}

\* where run_pipeline goes after the step at position i
AfterStep(i) == IF i < Len(StepOrder) THEN StepOrder[i + 1] ELSE "log"

\* How a step can end.  export_website and import_website return a bool
\* (exporter.py 85-102, importer.py 59-145) or raise from the code outside
\* their try (exporter.py 53-59, importer.py 54-55); generate_content and
\* enrich_website return a path or raise.
StepOutcomes(step) ==
    IF step \in {"export", "upload"} THEN {"True", "False", "raise"}
    ELSE {"path", "raise"}

\* the outcomes that are a failure of the step
StepFailed(out) == out \in {"False", "raise"}

\* runner.py 167-193: run_pipeline up to the try; ensure_workspace_dirs is
\* called outside it (dirs_ok: it works)
RunPipeline(dirs_ok) ==
    /\ mode = "pipeline"
    /\ at = "idle"
    /\ at' = IF dirs_ok THEN StepOrder[1] ELSE "end"
    /\ raised' = ~dirs_ok
    /\ UNCHANGED <<mode, syncvars, credvars, steps, dry_run, use_async, failed_steps,
                   completed>>

\* runner.py 196-206 with 14-32, 57-118: the step at position i.  run_export
\* and run_upload_website drop the value their callee returns; an exception
\* reaches the handler of 210-213, which logs and raises it again.
RunStep(i, out) ==
    /\ mode = "pipeline"
    /\ at = StepOrder[i]
    /\ IF StepOrder[i] \notin steps
       THEN /\ at' = AfterStep(i)
            /\ UNCHANGED <<failed_steps, raised>>
       ELSE IF dry_run
       THEN /\ at' = AfterStep(i)
            /\ UNCHANGED <<failed_steps, raised>>
       ELSE /\ out \in StepOutcomes(StepOrder[i])
            /\ failed_steps' = IF StepFailed(out) THEN failed_steps \cup {StepOrder[i]}
                               ELSE failed_steps
            /\ raised' = (out = "raise")
            /\ at' = IF out = "raise" THEN "end" ELSE AfterStep(i)
    /\ UNCHANGED <<mode, syncvars, credvars, steps, dry_run, use_async, completed>>

\* runner.py 208: logger.info("Pipeline completed ...")
LogCompleted ==
    /\ mode = "pipeline"
    /\ at = "log"
    /\ completed' = TRUE
    /\ at' = "end"
    /\ UNCHANGED <<mode, syncvars, credvars, steps, dry_run, use_async, failed_steps,
                   raised>>

InitPipe ==
    /\ mode = "pipeline"
    /\ SyncIdle
    /\ CredIdle
    /\ steps \in SUBSET StepNames
    /\ dry_run \in BOOLEAN
    /\ use_async \in BOOLEAN
    /\ at = "idle"
    /\ failed_steps = {}
    /\ raised = FALSE
    /\ completed = FALSE

NextPipe ==
    \/ \E dirs_ok \in BOOLEAN : RunPipeline(dirs_ok)
    \/ \E i \in 1..Len(StepOrder), out \in {"True", "False", "path", "raise"} :
          RunStep(i, out)
    \/ LogCompleted

SpecPipe == InitPipe /\ [][NextPipe]_vars

\* ------------------------------------------------------ the claims

Downloading == mode \in {"export", "scan"}
Uploading == mode \in {"upload", "import"}
Source == IF Downloading THEN remote ELSE local
Dest == IF Downloading THEN local ELSE remote
Ended(t) == t.st \in {"done", "collected"}

\* the file is in the task list, or its task has been taken from it
Scheduled(f) == f \in TaskFiles \/ task[f].st # "none"

\* C1: a file whose two modification times were read is scheduled for transfer
\* exactly when the destination file is absent or the source is strictly
\* newer; equal times skip.  Download scan and upload check alike.
C1_SyncDecision ==
    \A f \in Files :
       decided[f].made =>
          /\ decided[f].transfer <=>
                (~decided[f].dst_ex \/ decided[f].src_mtime > decided[f].dst_mtime)
          /\ decided[f].transfer <=> Scheduled(f)

C1_Witness ==
    \E f \in Files :
       /\ mode = "scan"
       /\ decided[f].made /\ decided[f].dst_ex
       /\ decided[f].src_mtime = decided[f].dst_mtime
       /\ ~decided[f].transfer
       /\ ~Scheduled(f)

\* C2: the second of two syncs in a row, with the source unchanged, no purge
\* asked for and no transfer failure, transfers nothing (export_website,
\* FTPImporter.import_website).
C2_Idempotent ==
    (mode \in {"export", "upload"} /\ ~purge_remote /\ run = 2 /\ pc = "done" /\ clean) =>
       /\ \A f \in Files : task[f].st = "none"
       /\ tally.total = 0
       /\ stats.uploaded = 0

\* C3: after a download sync without transport failure every remote file is on
\* the local disk under the same path with the same bytes, a file just above
\* the 10 MiB threshold included.
C3_RoundTrip ==
    (mode = "export" /\ pc = "done" /\ clean) =>
       \A f \in Files :
          remote[f].ex =>
             /\ local[f].ex
             /\ local[f].size = remote[f].size
             /\ local[f].data = remote[f].data

\* C4: with n >= 1 transfer tasks of which s succeeded, the download sync
\* reports success exactly when s/n >= 0.9; 18 of 20 succeeds, 17 of 20 fails.
C4_Threshold ==
    (mode = "tally_download" /\ pc = "done") =>
       /\ tally.successful + tally.failed = tally.total
       /\ result <=> (10 * tally.successful >= 9 * tally.total)
       /\ (tally.total = 20 /\ tally.successful = 18) => result
       /\ (tally.total = 20 /\ tally.successful = 17) => ~result

C4_Witness ==
    /\ mode = "tally_download" /\ pc = "done"
    /\ tally.total = 20 /\ tally.successful = 18 /\ result

\* C5: an upload sync in which 1 of 20 transfers fails and 19 succeed is
\* reported successful, with the failed counter at 1.
C5_PartialFailure ==
    (mode = "tally_upload" /\ pc = "done" /\ tally.total = 20
        /\ stats.uploaded = 19 /\ stats.failed = 1) =>
       (result /\ stats.failed = 1)

\* what the purge leaves of the tree that was there: nothing the source lacks
PurgedClean ==
    /\ \A f \in Files : (pre[f].ex /\ ~local[f].ex) => ~remote[f].ex
    /\ \A f \in Files : ~marker[f]
    /\ rsub => FilesIn(local, "sub") # {}

UploadSucceeded(f) ==
    IF mode = "upload" THEN task[f].st = "done" /\ task[f].res
    ELSE local[f].ex /\ f \notin todo

Touched(f) ==
    IF mode = "import" THEN local[f].ex ELSE task[f].st # "none"

\* C7: unless purge is asked for, a sync deletes nothing at the destination:
\* every file that was there and that no transfer overwrites is still there
\* afterwards, for export_website as for the upload.
C7_NoDefaultPurge ==
    (pc = "done" /\ ~purge_remote) =>
       \A f \in Files : (pre[f].ex /\ ~Touched(f)) => Dest[f] = pre[f]

\* C8: a transfer task makes at most 3 attempts and has ended once the third
\* is made; a task whose 3 attempts all failed transiently has ended in Failure.
C8_RetryBound ==
    \A f \in Files :
       /\ task[f].attempts <= 3
       /\ task[f].attempts = 3 => Ended(task[f])
       /\ task[f].errs = 3 => (Ended(task[f]) /\ ~task[f].res)

C8_Witness ==
    \E f \in Files :
       task[f].errs = 3 /\ task[f].attempts = 3 /\ task[f].st = "done" /\ ~task[f].res

\* C9: a transfer attempt that fails with a permanent (permission) error ends
\* the task as Failure at once: no further attempt, no backoff sleep.
C9_PermanentNotRetried ==
    \A f \in Files :
       task[f].perm > 0 =>
          /\ Ended(task[f]) /\ ~task[f].res
          /\ task[f].attempts = task[f].perm
          /\ Len(task[f].naps) < task[f].perm

\* the files of the source tree, and the three counters of the finished sync
SourceCount == Cardinality({f \in Files : Source[f].ex})
Transferred == IF Downloading THEN tally.successful ELSE stats.uploaded
Skipped == IF Downloading THEN Cardinality(file_cache) - Len(tasks) ELSE stats.skipped
Failed == IF Downloading THEN tally.failed ELSE stats.failed

\* C10: when a sync completes, transferred + skipped + failed is the number of
\* source files the scan found.
C10_StatsSum ==
    (mode \in {"export", "scan", "upload"} /\ pc = "done" /\ how = "returned") =>
       Transferred + Skipped + Failed = SourceCount

\* the sync started at least one transfer task
TasksStarted == \E f \in Files : task[f].st # "none"

\* C11: an error raised while one file's task is processed (connection,
\* transfer, or the temp-marker existence check) ends that task as Failure and
\* goes no further: when the sync has ended every task it created has an
\* outcome, and the sync returned rather than being cut short by the error.
C11_TaskIsolation ==
    (mode \in {"export", "scan", "upload"} /\ pc = "done") =>
       /\ \A f \in Files : task[f].st # "none" => Ended(task[f])
       /\ TasksStarted => how = "returned"

\* the results a sync returns when it ran to completion with a success rate
\* below 0.9: exporter.py 310-315, ftp_importer.py 393
LowRateResults ==
    {IF Downloading
     THEN DownloadResult([bound |-> TRUE, successful |-> c[2], failed |-> c[1] - c[2],
                          total |-> c[1]])
     ELSE ImportResult([NoStats EXCEPT !.uploaded = c[2], !.failed = c[1] - c[2]]) :
        c \in {d \in (1..MaxTasks) \X (0..MaxTasks) :
                  d[2] <= d[1] /\ ~SuccessRateOK(d[2], d[1])}}

\* C12: the result of a sync aborted by a sync-level error (scan connection,
\* walk, purge) differs from every result of a sync that ran to completion
\* with a success rate below 0.9.
C12_Distinguishable ==
    (mode \in {"export", "scan", "upload"} /\ pc = "done" /\ how = "aborted") =>
       result \notin LowRateResults

\* the transport failed during the scan of this sync: the connection or the
\* walk failed, or a file of the tree was looked at and did not reach file_cache
ScanFailed ==
    /\ Downloading
    /\ pc # "idle"
    /\ \/ how = "aborted"
       \/ \E f \in Files : remote[f].ex /\ f \notin todo /\ f \notin file_cache

\* C13: once the transport has failed during the scan phase (walking the tree,
\* or reading a file's size or modification time) the download sync is aborted
\* and reported failed, and no transfer task is started.
C13_ScanFatal ==
    ScanFailed =>
       /\ pc \in {"scan", "done"}
       /\ ~TasksStarted
       /\ pc = "done" => (how = "aborted" /\ ~result)

\* the worker connections that are open: a task's connection is open from the
\* moment it starts until _download_file_with_retry returns
WorkerConnections == {task[f].conn : f \in Running}

\* C14: during the parallel transfer phase the number of tasks being executed,
\* and the number of open worker connections, never exceeds
\* min(MAX_WORKERS, task_count), where MAX_WORKERS = 5.
C14_BoundedPool ==
    /\ MAX_WORKERS = 5
    /\ Cardinality(Running) <= Min({MAX_WORKERS, Len(tasks)})
    /\ Cardinality(WorkerConnections) <= Min({MAX_WORKERS, Len(tasks)})

C14_Witness ==
    /\ mode = "pool"
    /\ Len(tasks) > MAX_WORKERS
    /\ Cardinality(Running) = MAX_WORKERS
    /\ Cardinality(WorkerConnections) = MAX_WORKERS
    /\ \E i \in DOMAIN task : task[i].st = "queued"

StoreYields == ~creds.fell_back /\ Truthy(creds.username) /\ Truthy(creds.password)
ConfigYields == Truthy(hostinger_config.username) /\ Truthy(hostinger_config.password)

\* C16: when get_credential raised, the statically configured username and
\* password are the ones used; and the sync fails for missing credentials only
\* if neither the credential store nor the static configuration yields a
\* non-empty username and password (the host being configured).
C16_CredentialFallback ==
    creds.done =>
       /\ creds.fell_back => /\ creds.username = hostinger_config.username
                             /\ creds.password = hostinger_config.password
       /\ (creds.failed /\ Truthy(FtpHostStr)) => (~StoreYields /\ ~ConfigYields)

\* C17: when set_backend(t) has returned, get_current_backend() is t, and a
\* credential call without backend_type uses backend t, whatever calls were
\* made before.
C17_ActiveBackend ==
    (last_call.op = "set_backend" /\ last_call.returned) =>
       /\ GetCurrentBackend = last_call.backend_type
       /\ ResolveType(None) = last_call.backend_type

\* C18: run_pipeline raises to its caller whenever a requested step failed,
\* and logs the completion of the pipeline only when every requested step
\* succeeded.
C18_PipelinePropagates ==
    (mode = "pipeline" /\ at = "end") =>
       /\ failed_steps # {} => raised
       /\ completed => failed_steps = {}

\* the scan looked at file f and could not read the modification time it
\* compares: exporter.py 220 raised (the file did not reach file_cache), or
\* ftp_importer.py 175 raised FTPOSError (the decision was taken without it)
MtimeUnknown(f) ==
    IF Downloading
    THEN pc # "idle" /\ how # "aborted" /\ remote[f].ex /\ f \notin todo
         /\ f \notin file_cache
    ELSE mode = "upload" /\ pc # "idle" /\ decided[f].dst_ex /\ ~decided[f].made

\* C19: a file whose modification time could not be determined during the scan
\* is scheduled for transfer, not skipped and not dropped from the task list.
C19_FailOpen ==
    \A f \in Files : MtimeUnknown(f) => Scheduled(f)

\* C20: a transfer task is reported as Success only if the destination file
\* exists with size greater than 0 once the transfer has returned; and a task
\* whose attempts failed verification, or transiently, ended in Failure only
\* after the RETRY_COUNT attempts were all made.
C20_Verification ==
    \A f \in Files :
       /\ (Ended(task[f]) /\ task[f].res) => Verified(Dest[f])
       /\ (Ended(task[f]) /\ ~task[f].res /\ task[f].perm = 0
              /\ task[f].conn # NoConnection) => task[f].attempts = RETRY_COUNT

AbortedUpload == Uploading /\ pc = "done" /\ how = "aborted"

\* C22: when a deletion fails during the purge the sync is aborted and
\* reported failed, no file has been transferred, and the deletions carried
\* out before the failure stay: each file the purge removed is absent, every
\* other file is as it was.
C22_PurgeFatal ==
    (AbortedUpload /\ purge_remote) =>
       /\ ~result
       /\ \A f \in Files : task[f].st = "none"
       /\ \A f \in Files :
             remote[f] = IF \E i \in 1..Len(purged) : purged[i] = <<"file", f>>
                         THEN Absent ELSE pre[f]
       /\ \A i \in 1..Len(purged) : purged[i][1] = "marker" => ~marker[purged[i][2]]

C22_Witness ==
    /\ AbortedUpload /\ purge_remote
    /\ \E f \in Files : pre[f].ex /\ ~remote[f].ex
    /\ \E f \in Files : remote[f].ex

\* the scan has looked at every file of the source tree: nothing is left of
\* the directory being scanned, and (upload) os.walk has no directory to yield
\* after the current one
ScanComplete ==
    /\ todo = {}
    /\ IF Downloading THEN pc # "scan" ELSE Len(dirs) <= 1

\* the transfer of file f has begun
TransferBegun(f) == task[f].st \in {"running", "done", "collected"}

\* C23: no file transfer begins before the scan of the whole source tree has
\* finished, in the download and in the upload direction.
C23_TwoPhase ==
    \A f \in Files : TransferBegun(f) => ScanComplete

\* a pool thread has taken the task of file f from the executor's queue
Dispatched(f) == task[f].st \in {"running", "done", "collected"}

\* C24: the download tasks are submitted to the worker pool in non-decreasing
\* order of file size, and a task is not started while a task of strictly
\* smaller size is still waiting.
C24_SizeAscending ==
    (Downloading /\ pc = "pool") =>
       /\ \A i \in 1..Len(tasks) : \A j \in i..Len(tasks) : tasks[i].size <= tasks[j].size
       /\ \A f \in Files : \A g \in Files :
             (Dispatched(f) /\ task[g].st = "queued") => task[f].size <= task[g].size

C24_Witness ==
    /\ mode = "export" /\ pc = "pool"
    /\ remote[1].ex /\ remote[2].ex /\ remote[1].size > remote[2].size
    /\ Dispatched(2) /\ task[1].st = "queued"

\* the attempts of the task of file f that failed and were followed by another
\* attempt
Retried(f) == IF task[f].st = "running" THEN task[f].attempts ELSE task[f].attempts - 1

\* the delay slept after a task's first failed attempt
BaseDelay == IF Uploading THEN UploadDelay(1) ELSE DownloadDelay(0)

\* C25: a task sleeps once after every failed attempt that is followed by a
\* retry, whether the attempt raised a transient error or failed its
\* verification; the successive delays double from the base delay, and no
\* sleep follows the last failed attempt.
C25_ExponentialBackoff ==
    \A f \in Files :
       (task[f].st \in {"running", "done", "collected"} /\ task[f].attempts > 0) =>
          /\ Len(task[f].naps) = Retried(f)
          /\ \A i \in 1..Len(task[f].naps) : task[f].naps[i] = BaseDelay * Pow(2, i - 1)

\* the connections on which a transfer attempt has raised a transient error
FailedConnections == {task[g].conn : g \in {h \in Files : task[h].errs > 0}}

\* C26: once a transfer attempt has failed with a connection error, no later
\* attempt and no later task runs on the connection of that attempt.
C26_Reconnect ==
    \A f \in Files : task[f].st = "running" => task[f].conn \notin FailedConnections

\* the tasks whose outcome the coordinator has taken, by outcome
Collected(success) == {f \in TaskFiles : task[f].st = "collected" /\ task[f].res = success}

\* C27: every task of the task list is on it once, is run once and yields one
\* outcome, which the coordinator counts once; when the download returns,
\* successful + failed is the number of tasks.
C27_ExactlyOnce ==
    (Downloading /\ tally.bound) =>
       /\ \A i \in 1..Len(tasks) : \A j \in 1..Len(tasks) : tasks[i].f = tasks[j].f => i = j
       /\ tally.successful = Cardinality(Collected(TRUE))
       /\ tally.failed = Cardinality(Collected(FALSE))
       /\ \A f \in Files : task[f].st # "none" => f \in TaskFiles
       /\ (pc = "done" /\ how = "returned") =>
             /\ tally.total = Len(tasks)
             /\ tally.successful + tally.failed = Len(tasks)

C27_Witness ==
    /\ Downloading /\ pc = "done" /\ how = "returned"
    /\ Len(tasks) = 2 /\ tally.successful = 1 /\ tally.failed = 1

\* the scan has ended without error and has made no task
EmptyTaskList == Downloading /\ pc = "done" /\ how # "aborted" /\ tasks = <<>>

\* C28: when the scan completes without error and yields no file to transfer,
\* _sequential_scan_parallel_download returns True.
C28_EmptySucceeds == EmptyTaskList => result

\* the source files the finished upload has sent, and those it has found up to
\* date on the server
UploadedFiles == {f \in Files : task[f].st = "done" /\ task[f].res}
SkippedFiles == {f \in Files : decided[f].made /\ ~decided[f].transfer}

\* C29: FTPImporter.import_website returns True only if every file of every
\* source directory was uploaded successfully or skipped as up to date.
C29_UploadComplete ==
    (mode = "upload" /\ pc = "done" /\ result) =>
       \A f \in Files : local[f].ex => f \in UploadedFiles \cup SkippedFiles

\* C30: every FTP connection opened during a sync (the scan connection, the
\* worker connections, the connection made by FTPImporter.connect) is closed
\* when the sync call has returned, on success and on every failure path.
C30_NoConnectionLeak == pc = "done" => connections = {}

====
